---- MODULE Spec2Model ----
\* Model of the `wundr ai` command module (class AICommands, src/start-demo.sh
\* lines 240-874): the ten subcommand handlers, the operation invoker callAI and
\* the interactive chat loop.  One CLI invocation is one process: it runs one
\* subcommand handler to completion and exits.  Only the configuration file
\* written by saveConfig survives from one process to the next.
EXTENDS Integers, Sequences, FiniteSets, TLC

VARIABLES
  phase,      \* "idle" (no process), "chat" (process inside runChatLoop), "done" (handler returned or threw)
  cmd,        \* the subcommand of the current process with the arguments commander passed to its handler
  session,    \* the ChatSession object of the current process (id, model, context, history)
  loopState,  \* position of runChatLoop: NONE / AWAITING_INPUT / PROCESSING / TERMINATED / ABORTED
  lastInput,  \* what the operator typed at the last inquirer prompt (the "You:" line of the chat loop,
              \* or the answers given to a handler's input or confirm prompt)
  events,     \* the collaborator calls the current process has made, in order
  err,        \* the error the handler threw to commander (NoError when it returned)
  out,        \* what the handler last printed as its result
  lastCall,   \* operation, parameters and outcome of the most recent callAI
  config,     \* configManager: the in-memory store of the current process
  saved,      \* configManager: the store as last written by saveConfig
  written,    \* history variable: per key, the value of the last `config set` that reached saveConfig
  requests    \* demo server: per connection, the request received and the res.end calls made for it

vars == <<phase, cmd, session, loopState, lastInput, events, err, out, lastCall,
          config, saved, written, requests>>

\* ---------------------------------------------------------------- bounds
MaxPrompts == 3      \* prompts issued by one chat loop
MaxFiles == 2        \* files named on one `review` command line
MaxRequests == 2     \* connections the demo server sees

\* ---------------------------------------------------------------- values
Undefined == "<undefined>"          \* JavaScript undefined (an option or argument not given)

Truthy(s) == s # Undefined /\ s # ""

NoCommand == [name |-> "none"]
NoError == [code |-> "none"]
NoOutput == [kind |-> "none"]
NoCall == [op |-> "none"]
NoInput == [typed |-> FALSE]
Typed(s) == [typed |-> TRUE, text |-> s]

\* A ChatSession without its created/updated dates; messages likewise carry
\* role and content but not the Date of their push.
NoSession == [id |-> Undefined, model |-> Undefined, context |-> Undefined, history |-> <<>>]

\* Lines the operator may type, as sequences of characters.
Inputs ==
  { <<>>,
    <<"e","x","i","t">>, <<"E","X","I","T">>, <<"E","x","i","t">>, <<"e","X","i","T">>,
    <<"e","x","i">>, <<"e","x","i","t"," ">>, <<"E","X","I","T","S">>,
    <<"h","i">>, <<"H","i">> }

Targets == {"src/a.ts", "lib/b.ts"}
Keys == {"", "model", "foo.bar"}
Values == {"baz", "gpt"}
Faults == {"none", "early", "late"}
ConfigSetFaults == {"none", "set", "save", "report"}

\* String.prototype.toLowerCase, character by character.
LowerChar(c) ==
  CASE c = "E" -> "e"
    [] c = "X" -> "x"
    [] c = "I" -> "i"
    [] c = "T" -> "t"
    [] c = "S" -> "s"
    [] c = "H" -> "h"
    [] OTHER -> c

toLowerCase(s) == [i \in 1..Len(s) |-> LowerChar(s[i])]

\* ---------------------------------------------------------------- errors
\* errorHandler.createError(code, message, context, recoverable)
createError(code, message, context, recoverable) ==
  [code |-> code, message |-> message, context |-> context, recoverable |-> recoverable]

\* ---------------------------------------------------------------- invoker
Return(v) == [ok |-> TRUE, value |-> v]
Throw(e, detail) == [ok |-> FALSE, error |-> e, detail |-> detail]

\* callAI with a default branch that answers instead of throwing
callAI_defaultAnswers(operation, params) ==
  CASE operation = "generate" -> Return([text |-> <<"// Generated code", params.type>>])
    [] operation = "review" -> Return([issues |-> <<>>, suggestions |-> <<>>, score |-> 95])
    [] operation = "refactor" -> Return([description |-> "Refactoring plan", changes |-> <<>>])
    [] operation = "docs" -> Return([text |-> <<"# Documentation", params.target>>])
    [] operation = "test" -> Return([text |-> <<"// Generated tests", params.target>>])
    [] operation = "analyze" ->
         Return([complexity |-> "low", maintainability |-> "high", suggestions |-> <<>>])
    [] operation = "optimize" -> Return([description |-> "Optimization plan", changes |-> <<>>])
    [] OTHER -> Return([text |-> <<"// No response">>])

\* callAI(operation, params): the mock switch.  A thrown Error is an outcome.
callAI(operation, params) ==
  CASE operation = "generate" -> Return([text |-> <<"// Generated code", params.type>>])
    [] operation = "review" -> Return([issues |-> <<>>, suggestions |-> <<>>, score |-> 95])
    [] operation = "refactor" -> Return([description |-> "Refactoring plan", changes |-> <<>>])
    [] operation = "docs" -> Return([text |-> <<"# Documentation", params.target>>])
    [] operation = "test" -> Return([text |-> <<"// Generated tests", params.target>>])
    [] operation = "analyze" ->
         Return([complexity |-> "low", maintainability |-> "high", suggestions |-> <<>>])
    [] operation = "optimize" -> Return([description |-> "Optimization plan", changes |-> <<>>])
    [] OTHER -> Throw("UnknownOperation", operation)

Call(operation, params) ==
  [op |-> operation, params |-> params, result |-> callAI(operation, params)]

Count(seq, e) == Cardinality({i \in 1..Len(seq) : seq[i] = e})

\* ---------------------------------------------------------------- chat
\* loadChatSession(sessionId)
loadChatSession(sessionId) ==
  [id |-> sessionId, model |-> "claude-3", context |-> Undefined, history |-> <<>>]

\* createChatSession that files the --context path as a first user message
createChatSession_contextAsMessage(options, now) ==
  [id |-> "session-" \o now,
   model |-> IF Truthy(options.model) THEN options.model ELSE "claude-3",
   context |-> options.context,
   history |-> IF Truthy(options.context)
                 THEN <<[role |-> "user", content |-> options.context]>>
                 ELSE <<>>]

\* createChatSession(options); `now` is Date.now()
createChatSession(options, now) ==
  [id |-> "session-" \o now,
   model |-> IF Truthy(options.model) THEN options.model ELSE "claude-3",
   context |-> options.context,
   history |-> <<>>]

\* a validate callback that accepts every line
validate_acceptsAll(input) == Len(input) >= 0

\* inquirer's validate callback of the "You:" prompt
validate(input) == Len(input) > 0

\* an exit test that compares without lower-casing
isExit_caseSensitive(message) == message = <<"e","x","i","t">>

\* the loop's exit test
isExit(message) == toLowerCase(message) = <<"e","x","i","t">>

\* session.history.push(user, assistant)
pushExchange(history, message, response) ==
  history \o << [role |-> "user", content |-> message],
                [role |-> "assistant", content |-> response] >>

ChatOptions ==
  [model : {Undefined, "gpt-4"}, context : {Undefined, "src"}, session : {Undefined, "s1"}]

\* startChatSession up to the first prompt of runChatLoop
startChatSession(options, now, fault) ==
  /\ phase = "idle"
  /\ UNCHANGED requests
  /\ cmd' = [name |-> "chat", options |-> options]
  /\ lastInput' = NoInput
  /\ out' = NoOutput
  /\ UNCHANGED <<lastCall, config, saved, written>>
  /\ IF fault
       THEN \* logger.info throws before a session exists
            /\ phase' = "done"
            /\ session' = NoSession
            /\ loopState' = "NONE"
            /\ events' = <<>>
            /\ err' = createError("WUNDR_AI_CHAT_FAILED", "Failed to start chat session",
                                  [options |-> options], TRUE)
       ELSE /\ phase' = "chat"
            /\ session' = IF Truthy(options.session)
                            THEN loadChatSession(options.session)
                            ELSE createChatSession(options, now)
            /\ loopState' = "AWAITING_INPUT"
            /\ events' = <<"prompt">>
            /\ err' = NoError

\* One answer to the "You:" prompt: inquirer re-asks while validate rejects,
\* then the loop either breaks on "exit" or goes on to call the invoker.
chatInput(input) ==
  /\ phase = "chat"
  /\ UNCHANGED requests
  /\ loopState = "AWAITING_INPUT"
  /\ lastInput' = Typed(input)
  /\ UNCHANGED <<cmd, session, err, out, lastCall, config, saved, written>>
  /\ IF ~validate(input)
       THEN /\ Count(events, "prompt") < MaxPrompts
            /\ events' = Append(events, "prompt")
            /\ UNCHANGED <<phase, loopState>>
       ELSE IF isExit(input)
         THEN /\ loopState' = "TERMINATED"
              /\ phase' = "done"
              /\ events' = Append(events, "logger.success")
         ELSE /\ loopState' = "PROCESSING"
              /\ UNCHANGED <<phase, events>>

\* An iteration that swallows the invoker's failure, keeps only the failed
\* message in the log and prompts again.
chatProcess_keepsFailedMessage ==
  /\ phase = "chat"
  /\ UNCHANGED requests
  /\ loopState = "PROCESSING"
  /\ Count(events, "prompt") < MaxPrompts
  /\ LET message == lastInput.text
         call == Call("chat", [message |-> message, session |-> session])
     IN /\ lastCall' = call
        /\ session' = [session EXCEPT !.history =
                         IF call.result.ok THEN pushExchange(@, message, call.result.value)
                         ELSE <<[role |-> "user", content |-> message]>>]
        /\ events' = events \o <<"callAI", "prompt">>
        /\ loopState' = "AWAITING_INPUT"
  /\ UNCHANGED <<phase, cmd, lastInput, err, out, config, saved, written>>

\* An iteration that pushes the user message before it calls the invoker and
\* the assistant message after.
chatProcess_pushesUserFirst ==
  /\ phase = "chat"
  /\ UNCHANGED requests
  /\ loopState = "PROCESSING"
  /\ LET message == lastInput.text
         call == Call("chat", [message |-> message, session |-> session])
         user == <<[role |-> "user", content |-> message]>>
     IN /\ lastCall' = call
        /\ IF call.result.ok
             THEN /\ Count(events, "prompt") < MaxPrompts
                  /\ session' = [session EXCEPT !.history =
                                   @ \o user \o <<[role |-> "assistant",
                                                   content |-> call.result.value]>>]
                  /\ out' = [kind |-> "chat", value |-> call.result.value]
                  /\ events' = events \o <<"callAI", "prompt">>
                  /\ loopState' = "AWAITING_INPUT"
                  /\ UNCHANGED <<phase, err>>
             ELSE /\ session' = [session EXCEPT !.history = @ \o user]
                  /\ events' = Append(events, "callAI")
                  /\ loopState' = "ABORTED"
                  /\ phase' = "done"
                  /\ err' = createError("WUNDR_AI_CHAT_FAILED", "Failed to start chat session",
                                        [options |-> cmd.options], TRUE)
                  /\ UNCHANGED out
  /\ UNCHANGED <<cmd, lastInput, config, saved, written>>

\* The rest of the iteration: callAI('chat', ...), display, push, next prompt.
\* A throw from callAI leaves runChatLoop and is caught by startChatSession.
chatProcess ==
  /\ phase = "chat"
  /\ UNCHANGED requests
  /\ loopState = "PROCESSING"
  /\ LET message == lastInput.text
         call == Call("chat", [message |-> message, session |-> session])
     IN /\ lastCall' = call
        /\ IF call.result.ok
             THEN /\ Count(events, "prompt") < MaxPrompts
                  /\ session' = [session EXCEPT !.history =
                                   pushExchange(@, message, call.result.value)]
                  /\ out' = [kind |-> "chat", value |-> call.result.value]
                  /\ events' = events \o <<"callAI", "prompt">>
                  /\ loopState' = "AWAITING_INPUT"
                  /\ UNCHANGED <<phase, err>>
             ELSE /\ events' = Append(events, "callAI")
                  /\ loopState' = "ABORTED"
                  /\ phase' = "done"
                  /\ err' = createError("WUNDR_AI_CHAT_FAILED", "Failed to start chat session",
                                        [options |-> cmd.options], TRUE)
                  /\ UNCHANGED <<session, out>>
  /\ UNCHANGED <<cmd, lastInput, config, saved, written>>

\* ---------------------------------------------------------------- handlers
\* All sequences over S of length at most n.
SeqsUpTo(S, n) == UNION {[1..m -> S] : m \in 0..n}

GenerateOptions ==
  [prompt : {Undefined, "", "a form"}, context : {Undefined, "src"},
   template : {Undefined}, output : {Undefined, "out.ts"}]
ReviewOptions == [focus : {"all"}, severity : {"info"}, suggestFixes : BOOLEAN]
RefactorOptions == [type : {"optimize"}, scope : {"function"}, dryRun : BOOLEAN]
DocsOptions == [type : {"api", "readme"}, format : {"markdown", "html"}, includeExamples : {FALSE}]
TestOptions == [framework : {"jest"}, coverage : {"unit"}, mocks : {FALSE}]
AnalyzeOptions == [aspect : {"all"}, suggestions : BOOLEAN]
OptimizeOptions == [focus : {"speed"}, benchmarks : BOOLEAN]

\* What the operator types at promptForGeneration until inquirer accepts it.
Answers == {<<"a button">>, <<"", "a button">>}

\* The body of a handler is one try block whose catch rethrows
\* errorHandler.createError(code, message, context, true).  `steps` are the
\* collaborator calls the body makes when nothing fails; with fault "early"
\* the first of them throws, with "late" the last one.
\* `typed` is what the operator answers at the handler's inquirer prompt ("prompt"
\* for an input, "confirm" for a confirmation); it is recorded when that call was made.
settleWith(c, steps, fault, code, message, context, output, call, typed) ==
  LET made == CASE fault = "none" -> steps
                [] fault = "early" -> <<>>
                [] fault = "late" -> SubSeq(steps, 1, Len(steps) - 1)
  IN /\ phase = "idle"
     /\ UNCHANGED requests
     /\ phase' = "done"
     /\ cmd' = c
     /\ events' = made
     /\ err' = IF fault = "none" THEN NoError ELSE createError(code, message, context, TRUE)
     /\ out' = IF fault = "none" THEN output ELSE NoOutput
     /\ lastCall' = IF fault = "early" THEN NoCall ELSE call
     /\ lastInput' = IF Count(made, "prompt") + Count(made, "confirm") > 0 THEN typed ELSE NoInput
     /\ UNCHANGED <<session, loopState, config, saved, written>>

\* a handler that asks the operator nothing
settle(c, steps, fault, code, message, context, output, call) ==
  settleWith(c, steps, fault, code, message, context, output, call, NoInput)

\* promptForGeneration without the validate callback: the first answer is taken
promptForGeneration_acceptsFirst(answers) ==
  [prompt |-> answers[1], asked |-> <<"prompt">>]

\* promptForGeneration(type): inquirer re-asks until validate accepts
promptForGeneration(answers) ==
  LET i == CHOOSE j \in 1..Len(answers) :
             /\ Len(answers[j]) > 0
             /\ \A k \in 1..(j - 1) : Len(answers[k]) = 0
  IN [prompt |-> answers[i], asked |-> [k \in 1..i |-> "prompt"]]

\* loadContext(contextPath)
loadContext(contextPath) == "// Context from " \o contextPath

generateCode(type, options, answers, fault) ==
  LET asked == IF Truthy(options.prompt) THEN <<>> ELSE promptForGeneration(answers).asked
      prompt == IF Truthy(options.prompt) THEN options.prompt
                ELSE promptForGeneration(answers).prompt
      context == IF Truthy(options.context) THEN loadContext(options.context) ELSE ""
      call == Call("generate", [type |-> type, prompt |-> prompt, context |-> context,
                                template |-> options.template])
      steps == <<"logger.info">> \o asked \o <<"callAI">>
               \o (IF Truthy(options.output) THEN <<"saveGeneratedCode", "logger.success">>
                   ELSE <<"console.log">>)
  IN settleWith([name |-> "generate", type |-> type, options |-> options], steps, fault,
                "WUNDR_AI_GENERATE_FAILED", "Failed to generate code",
                [type |-> type, options |-> options],
                [kind |-> "code", value |-> call.result.value, savedTo |-> options.output], call,
                Typed(SubSeq(answers, 1, Len(asked))))

\* getChangedFiles()
getChangedFiles == <<"src/example.ts">>

reviewCode(files, options, fault) ==
  LET filesToReview == IF Len(files) > 0 THEN files ELSE getChangedFiles
      review(file) == Call("review", [code |-> "// Content of " \o file, file |-> file,
                                      focus |-> options.focus, severity |-> options.severity])
      reviewResults == [i \in 1..Len(filesToReview) |->
                          [file |-> filesToReview[i],
                           issues |-> review(filesToReview[i]).result.value.issues,
                           suggestions |-> review(filesToReview[i]).result.value.suggestions,
                           score |-> review(filesToReview[i]).result.value.score]]
      steps == <<"logger.info">>
               \o (IF Len(files) > 0 THEN <<>> ELSE <<"getChangedFiles">>)
               \o [i \in 1..(2 * Len(filesToReview)) |-> IF i % 2 = 1 THEN "readFile" ELSE "callAI"]
               \o <<"displayReviewResults">>
               \o (IF options.suggestFixes THEN <<"suggestFixes">> ELSE <<>>)
  IN settle([name |-> "review", files |-> files, options |-> options], steps, fault,
            "WUNDR_AI_REVIEW_FAILED", "Failed to review code",
            [files |-> files, options |-> options],
            [kind |-> "review", results |-> reviewResults],
            review(filesToReview[Len(filesToReview)]))

\* What the operator types at a confirm prompt: y, n, or just Enter.
ConfirmAnswers == {"y", "n", ""}

\* inquirer's confirm prompt: Enter alone takes the prompt's `default`
confirm(answer, default) == IF answer = "" THEN default ELSE answer = "y"

\* refactorCode whose --dry-run branch prints the plan but does not return
refactorCode_dryRunFallsThrough(target, options, answer, fault) ==
  LET call == Call("refactor", [code |-> "// Content of " \o target, target |-> target,
                                type |-> options.type, scope |-> options.scope])
      proceed == confirm(answer, FALSE)
      steps == <<"logger.info", "readFile", "callAI">>
               \o (IF options.dryRun THEN <<"logger.info", "console.log">> ELSE <<>>)
               \o <<"confirm">>
               \o (IF proceed THEN <<"applyRefactoring", "logger.success">> ELSE <<>>)
  IN settleWith([name |-> "refactor", target |-> target, options |-> options], steps, fault,
                "WUNDR_AI_REFACTOR_FAILED", "Failed to refactor code",
                [target |-> target, options |-> options],
                [kind |-> "refactor", plan |-> call.result.value, applied |-> proceed], call,
                Typed(<<answer>>))

refactorCode(target, options, answer, fault) ==
  LET call == Call("refactor", [code |-> "// Content of " \o target, target |-> target,
                                type |-> options.type, scope |-> options.scope])
      proceed == confirm(answer, FALSE)
      applied == ~options.dryRun /\ proceed
      steps == <<"logger.info", "readFile", "callAI">>
               \o (IF options.dryRun THEN <<"logger.info", "console.log">>
                   ELSE <<"confirm">>
                        \o (IF proceed THEN <<"applyRefactoring", "logger.success">> ELSE <<>>))
  IN settleWith([name |-> "refactor", target |-> target, options |-> options], steps, fault,
                "WUNDR_AI_REFACTOR_FAILED", "Failed to refactor code",
                [target |-> target, options |-> options],
                [kind |-> "refactor", plan |-> call.result.value, applied |-> applied], call,
                Typed(<<answer>>))

\* getDocsOutputPath(target, type, format)
getDocsOutputPath(target, type, format) ==
  LET ext == IF format = "markdown" THEN "md" ELSE format
  IN "docs/" \o target \o "." \o type \o "." \o ext

generateDocs(target, options, fault) ==
  LET call == Call("docs", [code |-> "// Content of " \o target, target |-> target,
                            type |-> options.type, format |-> options.format,
                            includeExamples |-> options.includeExamples])
      outputPath == getDocsOutputPath(target, options.type, options.format)
  IN settle([name |-> "docs", target |-> target, options |-> options],
            <<"logger.info", "readFile", "callAI", "saveGeneratedDocs", "logger.success">>, fault,
            "WUNDR_AI_DOCS_FAILED", "Failed to generate documentation",
            [target |-> target, options |-> options],
            [kind |-> "docs", value |-> call.result.value, savedTo |-> outputPath], call)

\* getTestOutputPath(target, framework)
getTestOutputPath(target, framework) == target \o ".test.js"

generateTests(target, options, fault) ==
  LET call == Call("test", [code |-> "// Content of " \o target, target |-> target,
                            framework |-> options.framework, coverage |-> options.coverage,
                            mocks |-> options.mocks])
      testPath == getTestOutputPath(target, options.framework)
  IN settle([name |-> "test", target |-> target, options |-> options],
            <<"logger.info", "readFile", "callAI", "saveGeneratedCode", "logger.success">>, fault,
            "WUNDR_AI_TEST_FAILED", "Failed to generate tests",
            [target |-> target, options |-> options],
            [kind |-> "tests", value |-> call.result.value, savedTo |-> testPath], call)

\* analyzeCode whose catch was copied from reviewCode
analyzeCode_copiedCatch(target, options, fault) ==
  LET call == Call("analyze", [code |-> "// Content of " \o target, target |-> target,
                               aspect |-> options.aspect, suggestions |-> options.suggestions])
  IN settle([name |-> "analyze", target |-> target, options |-> options],
            <<"logger.info", "readFile", "callAI", "displayAnalysisResults">>, fault,
            "WUNDR_AI_REVIEW_FAILED", "Failed to review code",
            [target |-> target, options |-> options],
            [kind |-> "analysis", value |-> call.result.value], call)

analyzeCode(target, options, fault) ==
  LET call == Call("analyze", [code |-> "// Content of " \o target, target |-> target,
                               aspect |-> options.aspect, suggestions |-> options.suggestions])
  IN settle([name |-> "analyze", target |-> target, options |-> options],
            <<"logger.info", "readFile", "callAI", "displayAnalysisResults">>, fault,
            "WUNDR_AI_ANALYZE_FAILED", "Failed to analyze code",
            [target |-> target, options |-> options],
            [kind |-> "analysis", value |-> call.result.value], call)

\* runBenchmark(target)
runBenchmark == [time |-> 100, memory |-> 50]

\* the differences displayBenchmarkComparison(before, after) prints
displayBenchmarkComparison(before, after) ==
  [shown |-> TRUE, time |-> after.time - before.time, memory |-> after.memory - before.memory]

\* optimizeCode whose 'after' benchmark and comparison follow the `if (apply)`
\* block instead of sitting inside it
optimizeCode_benchmarkOutsideApply(target, options, answer, fault) ==
  LET call == Call("optimize", [code |-> "// Content of " \o target, target |-> target,
                                focus |-> options.focus])
      apply == confirm(answer, FALSE)
      steps == <<"logger.info", "readFile">>
               \o (IF options.benchmarks THEN <<"runBenchmark">> ELSE <<>>)
               \o <<"callAI", "confirm">>
               \o (IF apply THEN <<"applyOptimization", "logger.success">> ELSE <<>>)
               \o (IF options.benchmarks
                     THEN <<"runBenchmark", "displayBenchmarkComparison">>
                     ELSE <<>>)
  IN settleWith([name |-> "optimize", target |-> target, options |-> options], steps, fault,
                "WUNDR_AI_OPTIMIZE_FAILED", "Failed to optimize code",
                [target |-> target, options |-> options],
                [kind |-> "optimize", plan |-> call.result.value, applied |-> apply,
                 comparison |-> IF options.benchmarks
                                  THEN displayBenchmarkComparison(runBenchmark, runBenchmark)
                                  ELSE [shown |-> FALSE]],
                call, Typed(<<answer>>))

optimizeCode(target, options, answer, fault) ==
  LET call == Call("optimize", [code |-> "// Content of " \o target, target |-> target,
                                focus |-> options.focus])
      apply == confirm(answer, FALSE)
      steps == <<"logger.info", "readFile">>
               \o (IF options.benchmarks THEN <<"runBenchmark">> ELSE <<>>)
               \o <<"callAI", "confirm">>
               \o (IF apply
                     THEN <<"applyOptimization">>
                          \o (IF options.benchmarks
                                THEN <<"runBenchmark", "displayBenchmarkComparison">>
                                ELSE <<>>)
                          \o <<"logger.success">>
                     ELSE <<>>)
  IN settleWith([name |-> "optimize", target |-> target, options |-> options], steps, fault,
                "WUNDR_AI_OPTIMIZE_FAILED", "Failed to optimize code",
                [target |-> target, options |-> options],
                [kind |-> "optimize", plan |-> call.result.value, applied |-> apply,
                 comparison |-> IF apply /\ options.benchmarks
                                  THEN displayBenchmarkComparison(runBenchmark, runBenchmark)
                                  ELSE [shown |-> FALSE]],
                call, Typed(<<answer>>))

\* ---------------------------------------------------------------- config
\* configManager.get(path) / configManager.set(path, value) on a store
configGet(store, path) == IF path = "ai" THEN store ELSE store[path]
configSet(store, path, value) == [store EXCEPT ![path] = value]

\* the template literal `ai.${key}`
aiPath(key) == "ai." \o key

\* setAIConfig that never calls saveConfig
setAIConfig_noSave(key, value, fault) ==
  LET stored == configSet(config, aiPath(key), value)
  IN /\ phase = "idle"
     /\ UNCHANGED requests
     /\ phase' = "done"
     /\ cmd' = [name |-> "config set", key |-> key, value |-> value]
     /\ config' = IF fault = "set" THEN config ELSE stored
     /\ saved' = saved
     /\ written' = IF fault \in {"set", "save"} THEN written ELSE [written EXCEPT ![key] = value]
     /\ events' = CASE fault = "set" -> <<>>
                    [] fault = "save" -> <<"configManager.set">>
                    [] fault = "report" -> <<"configManager.set">>
                    [] fault = "none" -> <<"configManager.set", "logger.success">>
     /\ err' = IF fault = "none" THEN NoError
               ELSE createError("WUNDR_AI_CONFIG_SET_FAILED", "Failed to set AI configuration",
                                [key |-> key, value |-> value], TRUE)
     /\ out' = IF fault = "none" THEN [kind |-> "updated", key |-> key, value |-> value]
               ELSE NoOutput
     /\ UNCHANGED <<session, loopState, lastInput, lastCall>>

setAIConfig(key, value, fault) ==
  LET stored == configSet(config, aiPath(key), value)
  IN /\ phase = "idle"
     /\ UNCHANGED requests
     /\ phase' = "done"
     /\ cmd' = [name |-> "config set", key |-> key, value |-> value]
     /\ config' = IF fault = "set" THEN config ELSE stored
     /\ saved' = IF fault \in {"set", "save"} THEN saved ELSE stored
     /\ written' = IF fault \in {"set", "save"} THEN written ELSE [written EXCEPT ![key] = value]
     /\ events' = CASE fault = "set" -> <<>>
                    [] fault = "save" -> <<"configManager.set">>
                    [] fault = "report" -> <<"configManager.set", "configManager.saveConfig">>
                    [] fault = "none" ->
                         <<"configManager.set", "configManager.saveConfig", "logger.success">>
     /\ err' = IF fault = "none" THEN NoError
               ELSE createError("WUNDR_AI_CONFIG_SET_FAILED", "Failed to set AI configuration",
                                [key |-> key, value |-> value], TRUE)
     /\ out' = IF fault = "none" THEN [kind |-> "updated", key |-> key, value |-> value]
               ELSE NoOutput
     /\ UNCHANGED <<session, loopState, lastInput, lastCall>>

getAIConfig(key, fault) ==
  /\ phase = "idle"
  /\ UNCHANGED requests
  /\ phase' = "done"
  /\ cmd' = [name |-> "config get", key |-> key]
  /\ events' = IF fault THEN <<>> ELSE <<"configManager.get", "console.log">>
  /\ err' = IF fault
              THEN createError("WUNDR_AI_CONFIG_GET_FAILED", "Failed to get AI configuration",
                               [key |-> key], TRUE)
              ELSE NoError
  /\ out' = IF fault THEN NoOutput
            ELSE IF Truthy(key)
              THEN [kind |-> "value", key |-> key, value |-> configGet(config, aiPath(key))]
              ELSE [kind |-> "json", value |-> configGet(config, "ai")]
  /\ UNCHANGED <<session, loopState, lastInput, lastCall, config, saved, written>>

\* ---------------------------------------------------------------- demo server
\* The http.createServer callback of demo-server.js (the heredoc of the demo
\* script).  It is a process of its own and shares nothing with the CLI.
NoRequest == [state |-> "none"]

Methods == {"GET", "POST"}
Urls ==
  {"/", "/api/analysis", "/api/metrics", "/api/issues", "/api/health",
   "", "//", "/index.html", "/?tab=1", "/api", "/api/", "/api/health/",
   "/API/HEALTH", "/api/metrics?x=1", "/api/issue"}

\* demoAnalysis; its timestamp is the Date of the server's start
demoAnalysis ==
  [project |-> "Wundr Demo",
   timestamp |-> "start",
   metrics |-> [totalFiles |-> 142, linesOfCode |-> 15420, maintainabilityIndex |-> 72,
                testCoverage |-> 78, issues |-> 12, technicalDebt |-> 180],
   issues |-> <<"complexity", "duplication", "security">>,
   recommendations |-> <<"Refactor UserService", "Extract validation", "Update dependencies">>]

\* what res carries when res.end(body) is called
Response(statusCode, contentType, body) ==
  [statusCode |-> statusCode,
   headers |-> [contentType |-> contentType, accessControlAllowOrigin |-> "*"],
   body |-> body]

\* a handler that matches /api/health with or without a trailing slash
handler_trailingSlash(url) ==
  IF url = "/" THEN <<Response(200, "text/html", [page |-> "dashboard"])>>
  ELSE IF url = "/api/analysis" THEN <<Response(200, "application/json", [json |-> demoAnalysis])>>
  ELSE IF url = "/api/metrics"
    THEN <<Response(200, "application/json", [json |-> demoAnalysis.metrics])>>
  ELSE IF url = "/api/issues"
    THEN <<Response(200, "application/json", [json |-> demoAnalysis.issues])>>
  ELSE IF url \in {"/api/health", "/api/health/"}
    THEN <<Response(200, "application/json", [json |-> [status |-> "healthy", timestamp |-> "now"]])>>
  ELSE <<Response(404, "application/json", [json |-> [error |-> "Endpoint not found"]])>>

\* (req, res) => { ... }: the res.end calls made for a request url, in order.
\* statusCode stays at node's default 200 unless the last branch sets 404.
handler(url) ==
  IF url = "/" THEN <<Response(200, "text/html", [page |-> "dashboard"])>>
  ELSE IF url = "/api/analysis" THEN <<Response(200, "application/json", [json |-> demoAnalysis])>>
  ELSE IF url = "/api/metrics"
    THEN <<Response(200, "application/json", [json |-> demoAnalysis.metrics])>>
  ELSE IF url = "/api/issues"
    THEN <<Response(200, "application/json", [json |-> demoAnalysis.issues])>>
  ELSE IF url = "/api/health"
    THEN <<Response(200, "application/json", [json |-> [status |-> "healthy", timestamp |-> "now"]])>>
  ELSE <<Response(404, "application/json", [json |-> [error |-> "Endpoint not found"]])>>

cliVars == <<phase, cmd, session, loopState, lastInput, events, err, out, lastCall,
             config, saved, written>>

\* a request arrives on a connection
receive(id, method, url) ==
  /\ requests[id].state = "none"
  /\ requests' = [requests EXCEPT ![id] =
                    [state |-> "pending", method |-> method, url |-> url, ended |-> <<>>]]
  /\ UNCHANGED cliVars

\* node runs the callback for a pending request
serve(id) ==
  /\ requests[id].state = "pending"
  /\ requests' = [requests EXCEPT ![id].state = "served",
                                  ![id].ended = @ \o handler(requests[id].url)]
  /\ UNCHANGED cliVars

\* ---------------------------------------------------------------- process
\* The handler's promise settled: commander's action returns and the CLI
\* process ends.  The next invocation starts with the saved configuration.
processExit ==
  /\ phase = "done"
  /\ UNCHANGED requests
  /\ phase' = "idle"
  /\ cmd' = NoCommand
  /\ session' = NoSession
  /\ loopState' = "NONE"
  /\ lastInput' = NoInput
  /\ events' = <<>>
  /\ err' = NoError
  /\ out' = NoOutput
  /\ lastCall' = NoCall
  /\ config' = saved
  /\ UNCHANGED <<saved, written>>

Paths == {"ai." \o k : k \in Keys}

Init ==
  /\ phase = "idle"
  /\ cmd = NoCommand
  /\ session = NoSession
  /\ loopState = "NONE"
  /\ lastInput = NoInput
  /\ events = <<>>
  /\ err = NoError
  /\ out = NoOutput
  /\ lastCall = NoCall
  /\ config = [p \in Paths |-> Undefined]
  /\ saved = [p \in Paths |-> Undefined]
  /\ written = [k \in Keys |-> Undefined]
  /\ requests = [id \in 1..MaxRequests |-> NoRequest]

Next ==
  \/ \E type \in {"component"}, options \in GenerateOptions, answers \in Answers, fault \in Faults :
       generateCode(type, options, answers, fault)
  \/ \E files \in SeqsUpTo(Targets, MaxFiles), options \in ReviewOptions, fault \in Faults :
       reviewCode(files, options, fault)
  \/ \E target \in Targets, options \in RefactorOptions, answer \in ConfirmAnswers, fault \in Faults :
       refactorCode(target, options, answer, fault)
  \/ \E target \in Targets, options \in DocsOptions, fault \in Faults :
       generateDocs(target, options, fault)
  \/ \E target \in Targets, options \in TestOptions, fault \in Faults :
       generateTests(target, options, fault)
  \/ \E options \in ChatOptions, now \in {"1", "2"}, fault \in BOOLEAN :
       startChatSession(options, now, fault)
  \/ \E input \in Inputs : chatInput(input)
  \/ chatProcess
  \/ \E target \in Targets, options \in AnalyzeOptions, fault \in Faults :
       analyzeCode(target, options, fault)
  \/ \E target \in Targets, options \in OptimizeOptions, answer \in ConfirmAnswers, fault \in Faults :
       optimizeCode(target, options, answer, fault)
  \/ \E key \in Keys, value \in Values, fault \in ConfigSetFaults :
       setAIConfig(key, value, fault)
  \/ \E key \in Keys \cup {Undefined}, fault \in BOOLEAN :
       getAIConfig(key, fault)
  \/ processExit

Spec == Init /\ [][Next]_vars

ServerNext ==
  \/ \E id \in 1..MaxRequests, method \in Methods, url \in Urls : receive(id, method, url)
  \/ \E id \in 1..MaxRequests : serve(id)

ServerSpec == Init /\ [][ServerNext]_vars

\* ================================================================ claims
ExitSpellings ==
  {s \in [1..4 -> {"e", "x", "i", "t", "E", "X", "I", "T"}] :
     \A i \in 1..4 : s[i] \in {<<"e", "x", "i", "t">>[i], <<"E", "X", "I", "T">>[i]}}

Prompts(ev) == Count(ev, "prompt")
Invocations(ev) == Count(ev, "callAI")

IsPrefix(s, t) == Len(s) <= Len(t) /\ SubSeq(t, 1, Len(s)) = s

Alternates(h) ==
  /\ Len(h) % 2 = 0
  /\ \A i \in 1..Len(h) : h[i].role = IF i % 2 = 1 THEN "user" ELSE "assistant"

\* C1: the iteration that handles a non-empty input other than "exit" appends
\* exactly two entries to the session log: the user message carrying the input,
\* then the assistant message carrying the invoker's result for 'chat'.
C1_ExchangeAppended ==
  [][loopState = "PROCESSING" =>
       /\ lastCall'.op = "chat"
       /\ lastCall'.result.ok
       /\ session'.history =
            session.history \o << [role |-> "user", content |-> lastInput.text],
                                  [role |-> "assistant", content |-> lastCall'.result.value] >>]_vars

\* C2: an input that spells "exit" in any letter case ends the loop: the invoker
\* is not called for it, the log is not touched, no further prompt is issued, and
\* nothing more happens in the terminated loop.
C2_ExitTerminates ==
  [][/\ (loopState = "AWAITING_INPUT" /\ lastInput'.typed /\ lastInput'.text \in ExitSpellings) =>
          /\ loopState' = "TERMINATED"
          /\ session' = session
          /\ lastCall' = lastCall
          /\ Invocations(events') = Invocations(events)
          /\ Prompts(events') = Prompts(events)
          /\ err' = NoError
     /\ loopState = "TERMINATED" => (phase = "done" /\ loopState' = "NONE")]_vars

C2_Witness ==
  /\ loopState = "TERMINATED"
  /\ lastInput = Typed(<<"e", "X", "i", "T">>)
  /\ Invocations(events) = 0

\* C3: an empty input is rejected: the loop stays in AWAITING_INPUT and asks
\* again, the log is unchanged and the invoker is not called.
C3_EmptyInputRejected ==
  [][(loopState = "AWAITING_INPUT" /\ lastInput'.typed /\ Len(lastInput'.text) = 0) =>
       /\ loopState' = "AWAITING_INPUT"
       /\ phase' = "chat"
       /\ session' = session
       /\ lastCall' = lastCall
       /\ Invocations(events') = Invocations(events)
       /\ Prompts(events') = Prompts(events) + 1
       /\ err' = NoError]_vars

C3_Witness ==
  /\ loopState = "AWAITING_INPUT"
  /\ lastInput = Typed(<<>>)
  /\ Prompts(events) = 2
  /\ Invocations(events) = 0

\* C4: whenever the loop is at a prompt, the log has even length and its
\* entries alternate user, assistant, user, assistant, ...
C4_StrictAlternation ==
  loopState = "AWAITING_INPUT" => Alternates(session.history)

C4_Witness ==
  /\ loopState = "AWAITING_INPUT"
  /\ cmd.options.context # Undefined
  /\ Prompts(events) >= 2
  /\ Alternates(session.history)

\* C5: across every step of the chat loop the previous log is a prefix of the
\* new log.
C5_AppendOnly ==
  [][phase = "chat" => IsPrefix(session.history, session'.history)]_vars

C5_Witness ==
  /\ loopState = "ABORTED"
  /\ Prompts(events) >= 2
  /\ lastCall.op = "chat"

\* The ten operation names of the command surface, and the fields of the
\* result shapes that are declared for them.
TenOperations ==
  {"generate", "review", "refactor", "docs", "test", "chat", "analyze", "optimize",
   "config set", "config get"}

HasDeclaredShape(op, value) ==
  CASE op = "generate" -> DOMAIN value = {"text"}
    [] op = "review" -> DOMAIN value = {"issues", "suggestions", "score"}
    [] op = "refactor" -> DOMAIN value = {"description", "changes"}
    [] OTHER -> TRUE

SampleParams == [type |-> "component", target |-> "src/a.ts", message |-> <<"h", "i">>]

\* C6: for each of the ten operation names the invoker returns a result, never
\* an error, and the result has the operation's declared shape; stated of every
\* call a handler makes with one of the ten names.
C6_TenOperationsReturn ==
  lastCall.op \in TenOperations =>
    (lastCall.result.ok /\ HasDeclaredShape(lastCall.op, lastCall.result.value))

\* The cases of the invoker's switch, and some names outside them.
SwitchCases == {"generate", "review", "refactor", "docs", "test", "analyze", "optimize"}
OtherNames == {"chat", "config set", "config get", "Generate", "deploy", ""}

\* C7: a call of the invoker with a name outside its switch fails with the
\* unknown-operation error, is the only invocation the process makes for it
\* (the process ends, nothing is retried) and leaves the session log as it was.
C7_UnknownOperationFails ==
  [][/\ (Invocations(events') > Invocations(events) /\ lastCall'.op \notin SwitchCases) =>
          /\ ~lastCall'.result.ok
          /\ lastCall'.result.error = "UnknownOperation"
          /\ lastCall'.result.detail = lastCall'.op
          /\ session'.history = session.history
          /\ Invocations(events') = Invocations(events) + 1
          /\ phase' = "done"
     /\ \A op \in OtherNames :
          ~callAI(op, SampleParams).ok /\ callAI(op, SampleParams).error = "UnknownOperation"]_vars

C7_Witness ==
  /\ lastCall.op = "chat"
  /\ ~lastCall.result.ok
  /\ lastCall.result.error = "UnknownOperation"
  /\ Invocations(events) = 1
  /\ phase = "done"
  /\ session.history = <<>>

\* The error kind each subcommand names, and the input parameters of a command.
ErrorKind(name) ==
  CASE name = "generate" -> "GENERATE_FAILED"
    [] name = "review" -> "REVIEW_FAILED"
    [] name = "refactor" -> "REFACTOR_FAILED"
    [] name = "docs" -> "DOCS_FAILED"
    [] name = "test" -> "TEST_FAILED"
    [] name = "chat" -> "CHAT_FAILED"
    [] name = "analyze" -> "ANALYZE_FAILED"
    [] name = "optimize" -> "OPTIMIZE_FAILED"
    [] name = "config set" -> "CONFIG_SET_FAILED"
    [] name = "config get" -> "CONFIG_GET_FAILED"

InputParameters(c) == [f \in DOMAIN c \ {"name"} |-> c[f]]

Completed ==
  \/ out # NoOutput
  \/ loopState = "TERMINATED"

\* C8: a subcommand either completes without an error or leaves exactly its own
\* named error kind, carrying the subcommand's input parameters and marked
\* recoverable; once the error is out the process is over (nothing is retried).
C8_NamedErrorKind ==
  /\ err # NoError =>
       /\ phase = "done"
       /\ cmd.name \in TenOperations
       /\ err.code = "WUNDR_AI_" \o ErrorKind(cmd.name)
       /\ err.context = InputParameters(cmd)
       /\ err.recoverable = TRUE
       /\ cmd.name # "review" => Invocations(events) <= 1
       /\ cmd.name = "review" =>
            Invocations(events) <= (IF Len(cmd.files) > 0 THEN Len(cmd.files) ELSE 1)
  /\ (phase = "done" /\ err = NoError) => Completed

C8_Witness ==
  /\ phase = "done"
  /\ cmd.name = "analyze"
  /\ err.code = "WUNDR_AI_ANALYZE_FAILED"
  /\ Invocations(events) = 1

\* the store entry the claim names for key k
Entry(k) == "ai." \o k

\* after a set of k: get prints k with the value that was set, read from ai.k
RoundTrip(k) ==
  written[k] # Undefined =>
    /\ out = [kind |-> "value", key |-> k, value |-> written[k]]
    /\ out.value = config[Entry(k)]
    /\ out.value = saved[Entry(k)]

SetPersists ==
  (cmd.name = "config set" /\ err = NoError) =>
     /\ saved[Entry(cmd.key)] = cmd.value
     /\ events = <<"configManager.set", "configManager.saveConfig", "logger.success">>

\* C9 as stated: for every key k, `config get k` reads back the value of the
\* last `config set k v`, both address the entry ai.k, and set saves the store
\* before it reports success.
C9_RoundTripEveryKey ==
  /\ (cmd.name = "config get" /\ cmd.key # Undefined /\ err = NoError) =>
       RoundTrip(cmd.key)
  /\ SetPersists

\* C9 amended: the same for every non-empty key k.
C9_RoundTripNonEmptyKey ==
  /\ (cmd.name = "config get" /\ cmd.key # Undefined /\ cmd.key # "" /\ err = NoError) =>
       RoundTrip(cmd.key)
  /\ SetPersists

C9_Witness ==
  /\ cmd.name = "config get"
  /\ cmd.key = "foo.bar"
  /\ written["foo.bar"] = "baz"
  /\ out = [kind |-> "value", key |-> "foo.bar", value |-> "baz"]

\* C10: from PROCESSING the invoker returns a result and the loop is back at
\* the prompt; the loop is left only through an input that spells "exit".
C10_ProcessingReturnsToPrompt ==
  [][/\ loopState = "PROCESSING" =>
          /\ lastCall'.result.ok
          /\ loopState' = "AWAITING_INPUT"
          /\ Prompts(events') = Prompts(events) + 1
     /\ (loopState \in {"AWAITING_INPUT", "PROCESSING"}
           /\ loopState' \notin {"AWAITING_INPUT", "PROCESSING"}) =>
          /\ lastInput'.typed
          /\ lastInput'.text \in ExitSpellings]_vars

\* The routes the demo server documents.
JsonRoutes == {"/api/analysis", "/api/metrics", "/api/issues", "/api/health"}

Routed(url, r) ==
  IF url = "/" THEN r.statusCode = 200 /\ r.headers.contentType = "text/html"
                    /\ DOMAIN r.body = {"page"}
  ELSE IF url \in JsonRoutes
    THEN r.statusCode = 200 /\ r.headers.contentType = "application/json"
         /\ DOMAIN r.body = {"json"}
  ELSE r.statusCode = 404 /\ r.headers.contentType = "application/json"
       /\ r.body = [json |-> [error |-> "Endpoint not found"]]

\* C11: every served request was answered exactly once: with the HTML page for
\* exactly "/", with status 200 and JSON for exactly the four API urls, and
\* with status 404 and {error: "Endpoint not found"} for every other url.
C11_Routing ==
  \A id \in 1..MaxRequests :
    /\ requests[id].state = "served" =>
         (Len(requests[id].ended) = 1 /\ Routed(requests[id].url, requests[id].ended[1]))
    /\ requests[id].state = "pending" => requests[id].ended = <<>>

C11_Witness ==
  /\ requests[1].state = "served"
  /\ requests[1].url = "/api/health/"
  /\ requests[1].ended[1].statusCode = 404
  /\ requests[2].state = "served"
  /\ requests[2].url = "/"
  /\ requests[2].ended[1].headers.contentType = "text/html"

\* C12: when the invoker fails while the loop is processing a message, the loop
\* ends without another prompt and the log is as it was before the iteration:
\* neither message of the pair is in it; nothing is added afterwards.
C12_PairAtomicOnFailure ==
  [][/\ (loopState = "PROCESSING" /\ ~lastCall'.result.ok) =>
          /\ session'.history = session.history
          /\ loopState' = "ABORTED"
          /\ phase' = "done"
          /\ Prompts(events') = Prompts(events)
          /\ Invocations(events') = Invocations(events) + 1
     /\ loopState = "ABORTED" => loopState' = "NONE"]_vars

C12_Witness ==
  /\ loopState = "ABORTED"
  /\ lastInput = Typed(<<"H", "i">>)
  /\ ~lastCall.result.ok
  /\ session.history = <<>>
  /\ err.code = "WUNDR_AI_CHAT_FAILED"

Has(e) == Count(events, e) > 0

\* every call of a precedes every call of b
Precedes(a, b) ==
  \A i, j \in 1..Len(events) : (events[i] = a /\ events[j] = b) => i < j

\* C13: the prompt handed to the invoker by `generate` is never empty: it is
\* the --prompt flag when that is a non-empty string, otherwise the first
\* non-empty answer of the operator, every empty answer before it having been
\* asked again; the invoker is called once, after the last question.
C13_GeneratePromptNeverEmpty ==
  cmd.name = "generate" =>
    /\ Invocations(events) <= 1
    /\ err = NoError => Invocations(events) = 1
    /\ Precedes("prompt", "callAI")
    /\ lastCall.op = "generate" =>
         LET prompt == lastCall.params.prompt
             flag == cmd.options.prompt
         IN /\ prompt \notin {"", Undefined}
            /\ IF flag \notin {"", Undefined}
                 THEN prompt = flag /\ Prompts(events) = 0
                 ELSE /\ lastInput.typed
                      /\ Prompts(events) = Len(lastInput.text)
                      /\ prompt = lastInput.text[Len(lastInput.text)]
                      /\ \A k \in 1..(Len(lastInput.text) - 1) : lastInput.text[k] = ""

C13_Witness ==
  /\ cmd.name = "generate"
  /\ cmd.options.prompt = ""
  /\ lastInput = Typed(<<"", "a button">>)
  /\ lastCall.params.prompt = "a button"
  /\ events = <<"logger.info", "prompt", "prompt", "callAI", "console.log">>

\* C14: `refactor` applies the refactoring only without --dry-run and after the
\* operator answered yes to the confirmation (Enter alone counts as no); with
\* --dry-run the plan is printed and neither the confirmation nor the
\* application happens.
C14_RefactorAppliesOnlyWhenConfirmed ==
  cmd.name = "refactor" =>
    /\ Has("applyRefactoring") =>
         /\ ~cmd.options.dryRun
         /\ Has("confirm")
         /\ Precedes("confirm", "applyRefactoring")
         /\ lastInput = Typed(<<"y">>)
    /\ cmd.options.dryRun =>
         /\ ~Has("confirm")
         /\ ~Has("applyRefactoring")
         /\ err = NoError => (Has("console.log") /\ out.kind = "refactor" /\ ~out.applied)
    /\ (lastInput.typed /\ lastInput.text \in {<<"">>, <<"n">>}) => ~Has("applyRefactoring")

C14_Witness ==
  /\ cmd.name = "refactor"
  /\ ~cmd.options.dryRun
  /\ lastInput = Typed(<<"y">>)
  /\ Has("applyRefactoring")
  /\ out.kind = "refactor"
  /\ out.applied

\* positions of the runBenchmark calls
Benchmarks == {i \in 1..Len(events) : events[i] = "runBenchmark"}

\* C15: `optimize` applies the optimization only after the operator confirmed;
\* with --benchmarks the 'before' benchmark precedes the invoker call, the
\* 'after' benchmark and the comparison come only after the application, a
\* comparison is shown only with both measurements, and after a decline
\* nothing is applied and no 'after' benchmark runs.
C15_OptimizeOrder ==
  cmd.name = "optimize" =>
    /\ Has("applyOptimization") =>
         (Has("confirm") /\ Precedes("confirm", "applyOptimization") /\ lastInput = Typed(<<"y">>))
    /\ Cardinality(Benchmarks) <= 2
    /\ ~cmd.options.benchmarks => (Benchmarks = {} /\ ~Has("displayBenchmarkComparison"))
    /\ (cmd.options.benchmarks /\ Has("callAI")) =>
         \E b \in Benchmarks : \A i \in 1..Len(events) : events[i] = "callAI" => b < i
    /\ Cardinality(Benchmarks) = 2 =>
         \E a \in Benchmarks : \E i \in 1..Len(events) : events[i] = "applyOptimization" /\ i < a
    /\ Has("displayBenchmarkComparison") =>
         /\ Cardinality(Benchmarks) = 2
         /\ Precedes("runBenchmark", "displayBenchmarkComparison")
         /\ Precedes("applyOptimization", "displayBenchmarkComparison")
    /\ (err = NoError /\ out.comparison.shown) => Has("displayBenchmarkComparison")
    /\ (lastInput.typed /\ lastInput.text \in {<<"">>, <<"n">>}) =>
         (~Has("applyOptimization") /\ Cardinality(Benchmarks) <= 1)

C15_Witness ==
  /\ cmd.name = "optimize"
  /\ cmd.options.benchmarks
  /\ lastInput = Typed(<<"y">>)
  /\ err = NoError
  /\ out.comparison = [shown |-> TRUE, time |-> 0, memory |-> 0]
  /\ events = <<"logger.info", "readFile", "runBenchmark", "callAI", "confirm",
                "applyOptimization", "runBenchmark", "displayBenchmarkComparison",
                "logger.success">>
====
